---- MODULE Spec2Model ----
(***************************************************************************)
(* Model of the data-access layer: the cached connection helper            *)
(* (connectToDatabase / disconnectFromDatabase), the Event schema with its *)
(* pre-save hook, and the Booking schema with its pre-save hook.           *)
(***************************************************************************)
EXTENDS Integers, Sequences, FiniteSets, TLC

(***************************************************************************)
(* Bounds of the model.                                                    *)
(***************************************************************************)
NumCallers == 3
MaxCalls == 4
NumSavers == 2
MaxSaves == 2

\* null, as in `{ conn: null, promise: null }`; handles and attempts are 1, 2, ...
NULL == 0

Callers == 1 .. NumCallers
\* every mongoose.connect invocation is one attempt; there are at most as
\* many attempts as calls
Attempts == 1 .. MaxCalls

VARIABLES
    cachedConn,      \* cached.conn: NULL or the handle of the attempt that produced it
    cachedPromise,   \* cached.promise: NULL or the attempt whose promise is stored
    promiseState,    \* per attempt: state of the promise built at lines 66-72
    connState,       \* per attempt: state of the connection mongoose.connect opens
    waiters,         \* per attempt: callers whose `await cached.promise` is registered, in order
    connects,        \* number of mongoose.connect invocations so far
    disconnects,     \* number of mongoose.disconnect invocations so far
    pc,              \* per caller: where its current call stands
    awaiting,        \* per caller: the attempt whose promise it awaits
    result,          \* per caller: outcome of its last finished call
    jobs,            \* the microtask (promise job) queue, FIFO
    calls,           \* number of calls invoked so far
    connectCalls,    \* number of connectToDatabase calls whose body has started
    disconnectCalls, \* number of disconnectFromDatabase calls whose body has started
    anyFailed,       \* some attempt's mongoose.connect has rejected
    resolved,        \* the handles connectToDatabase calls have resolved to
    events,          \* the Event collection: a set of documents
    saves,           \* number of saves started so far
    nextId,          \* the last _id handed to a new document
    bookings,        \* the Booking collection: a set of documents
    evpc,            \* per saver: where its Event save stands
    evsave,          \* per saver: the Event save in flight (request, document, modified paths)
    bkpc,            \* per saver: where its Booking save stands
    bksave,          \* per saver: the Booking document being saved
    error,           \* the error a rejected save is handing to its caller, "" when none
    rejected         \* the Booking request that error belongs to

connVars == <<cachedConn, cachedPromise, promiseState, connState, waiters,
              connects, disconnects, pc, awaiting, result, jobs, calls,
              connectCalls, disconnectCalls, anyFailed, resolved>>

storeVars == <<events, bookings, saves, nextId, evpc, evsave, bkpc, bksave,
               error, rejected>>

vars == <<connVars, storeVars>>

(***************************************************************************)
(* Strings are sequences of one-character strings.  Undefined stands for a *)
(* value that is not a string (a path that was never set).                 *)
(***************************************************************************)
Undefined == <<"undefined">>

IsString(v) == v # Undefined

Whitespace == {" ", "\t"}
DigitSeq == <<"0", "1", "2", "3", "4", "5", "6", "7", "8", "9">>
Digit == {DigitSeq[i] : i \in DOMAIN DigitSeq}
UpperSeq == <<"A", "B", "C", "D", "E", "F", "G", "H", "I", "J", "K", "L", "M",
              "N", "O", "P", "Q", "R", "S", "T", "U", "V", "W", "X", "Y", "Z">>
LowerSeq == <<"a", "b", "c", "d", "e", "f", "g", "h", "i", "j", "k", "l", "m",
              "n", "o", "p", "q", "r", "s", "t", "u", "v", "w", "x", "y", "z">>
LowerLetter == {LowerSeq[i] : i \in DOMAIN LowerSeq}

\* Number of one digit character, and the digit character of a number 0..9
DigitVal(c) == (CHOOSE i \in DOMAIN DigitSeq : DigitSeq[i] = c) - 1
DigitChar(n) == DigitSeq[n + 1]

\* the characters a .. b of s that exist (String.prototype.slice, 1-based)
Slice(s, a, b) ==
    LET lo == IF a < 1 THEN 1 ELSE a
        hi == IF b > Len(s) THEN Len(s) ELSE b
    IN  IF lo > hi THEN <<>> ELSE SubSeq(s, lo, hi)

\* the characters of s that satisfy Keep, in order
Filter(s, Keep(_)) == SelectSeq(s, Keep)

\* String.prototype.toLowerCase
LowerChar(c) ==
    IF \E i \in DOMAIN UpperSeq : UpperSeq[i] = c
    THEN LowerSeq[CHOOSE i \in DOMAIN UpperSeq : UpperSeq[i] = c]
    ELSE c
toLowerCase(s) == [i \in DOMAIN s |-> LowerChar(s[i])]

RECURSIVE trimStart(_)
trimStart(s) ==
    IF s # <<>> /\ Head(s) \in Whitespace THEN trimStart(Tail(s)) ELSE s

RECURSIVE trimEnd(_)
trimEnd(s) ==
    IF s # <<>> /\ s[Len(s)] \in Whitespace
    THEN trimEnd(Slice(s, 1, Len(s) - 1))
    ELSE s

\* String.prototype.trim
trim(s) == trimEnd(trimStart(s))

\* s.replace(/[X]+/g, by): every maximal run of characters of Class becomes `by`
RECURSIVE ReplaceRuns(_, _, _)
ReplaceRuns(s, Class, by) ==
    IF s = <<>> THEN <<>>
    ELSE IF Head(s) \in Class
         THEN IF Len(s) > 1 /\ s[2] \in Class
              THEN ReplaceRuns(Tail(s), Class, by)
              ELSE by \o ReplaceRuns(Tail(s), Class, by)
         ELSE <<Head(s)>> \o ReplaceRuns(Tail(s), Class, by)

SlugChar(c) == c \in LowerLetter \cup Digit \cup {"-"}

\* s.replace(/^-|-$/g, '')
StripDashes(s) ==
    LET a == IF s # <<>> /\ Head(s) = "-" THEN Tail(s) ELSE s
    IN  IF a # <<>> /\ a[Len(a)] = "-" THEN Slice(a, 1, Len(a) - 1) ELSE a

\* slugify: lower-case, trim, spaces/underscores to dashes, drop invalid
\* characters, collapse dashes, strip a leading and a trailing dash
slugify(value) ==
    StripDashes(
      ReplaceRuns(
        Filter(
          ReplaceRuns(trim(toLowerCase(value)), Whitespace \cup {"_"}, <<"-">>),
          SlugChar),
        {"-"}, <<"-">>))

AllDigits(s) == \A i \in DOMAIN s : s[i] \in Digit

RECURSIVE Number(_)
Number(s) ==
    IF s = <<>> THEN 0 ELSE 10 * Number(Slice(s, 1, Len(s) - 1)) + DigitVal(s[Len(s)])

\* n.toString().padStart(w, '0') for 0 <= n
RECURSIVE ToDigits(_)
ToDigits(n) == IF n < 10 THEN <<DigitChar(n)>> ELSE ToDigits(n \div 10) \o <<DigitChar(n % 10)>>

RECURSIVE padStart(_, _)
padStart(s, w) == IF Len(s) >= w THEN s ELSE padStart(<<"0">> \o s, w)

Thrown(msg) == [ok |-> FALSE, value |-> <<>>, error |-> msg]
Returned(v) == [ok |-> TRUE, value |-> v, error |-> ""]

\* /^(\d{1,2}):(\d{2})(?::(\d{2}))?$/ : the hour and minute groups, or <<>>
TimeMatch(t) ==
    LET c == IF \E i \in DOMAIN t : t[i] = ":"
             THEN CHOOSE i \in DOMAIN t : t[i] = ":" /\ \A j \in 1 .. i - 1 : t[j] # ":"
             ELSE 0
        h == Slice(t, 1, c - 1)
        m == Slice(t, c + 1, c + 2)
        rest == Slice(t, c + 3, Len(t))
    IN  IF /\ c \in {2, 3}
           /\ AllDigits(h)
           /\ Len(m) = 2 /\ AllDigits(m)
           /\ \/ rest = <<>>
              \/ Len(rest) = 3 /\ rest[1] = ":" /\ AllDigits(Tail(rest))
        THEN <<h, m>>
        ELSE <<>>

\* the largest hour and minute normalizeTime accepts
MaxHours == 23
MaxMinutes == 59

\* normalizeTime
normalizeTime(value) ==
    LET match == TimeMatch(trim(value))
    IN  IF match = <<>>
        THEN Thrown("Invalid event time; expected HH:mm")
        ELSE LET hours == Number(match[1])
                 minutes == Number(match[2])
             IN  IF hours < 0 \/ hours > MaxHours \/ minutes < 0 \/ minutes > MaxMinutes
                 THEN Thrown("Invalid event time; hour must be 0-23 and minutes 0-59")
                 ELSE Returned(padStart(ToDigits(hours), 2) \o <<":">>
                                 \o padStart(ToDigits(minutes), 2))

IsLeap(y) == (y % 4 = 0 /\ y % 100 # 0) \/ y % 400 = 0

DaysInMonth(y, m) ==
    IF m = 2 THEN (IF IsLeap(y) THEN 29 ELSE 28)
    ELSE IF m \in {4, 6, 9, 11} THEN 30 ELSE 31

NaN == [valid |-> FALSE, y |-> 0, m |-> 0, d |-> 0]

\* the time value of year / month / day, a day past the end of the month
\* running into the next month (MakeDay)
MakeDate(y, m, d) ==
    IF m < 1 \/ m > 12 \/ d < 1 \/ d > 31 THEN NaN
    ELSE IF d <= DaysInMonth(y, m) THEN [valid |-> TRUE, y |-> y, m |-> m, d |-> d]
    ELSE IF m = 12 THEN [valid |-> TRUE, y |-> y + 1, m |-> 1, d |-> d - DaysInMonth(y, m)]
    ELSE [valid |-> TRUE, y |-> y, m |-> m + 1, d |-> d - DaysInMonth(y, m)]

\* -MM or -MM-DD or nothing after the year of a date-only string
DateRest(y, r) ==
    IF r = <<>> THEN MakeDate(y, 1, 1)
    ELSE IF Len(r) = 3 /\ r[1] = "-" /\ AllDigits(Tail(r))
         THEN MakeDate(y, Number(Tail(r)), 1)
    ELSE IF /\ Len(r) = 6 /\ r[1] = "-" /\ r[4] = "-"
            /\ AllDigits(Slice(r, 2, 3)) /\ AllDigits(Slice(r, 5, 6))
         THEN MakeDate(y, Number(Slice(r, 2, 3)), Number(Slice(r, 5, 6)))
    ELSE NaN

\* new Date(value) for the date-only forms of the date time string format:
\* YYYY, YYYY-MM, YYYY-MM-DD, and the same with an expanded year +YYYYYY or
\* -YYYYYY; any other string of the inputs used here is not a date
parseDate(value) ==
    IF Len(value) >= 7 /\ value[1] \in {"+", "-"} /\ AllDigits(Slice(value, 2, 7))
    THEN LET n == Number(Slice(value, 2, 7))
         IN  IF value[1] = "-" /\ n = 0 THEN NaN
             ELSE DateRest(IF value[1] = "-" THEN 0 - n ELSE n,
                           Slice(value, 8, Len(value)))
    ELSE IF Len(value) >= 4 /\ AllDigits(Slice(value, 1, 4))
    THEN DateRest(Number(Slice(value, 1, 4)), Slice(value, 5, Len(value)))
    ELSE NaN

\* the year of Date.prototype.toISOString: four digits, or a sign and six
YearString(y) ==
    IF y >= 0 /\ y <= 9999 THEN padStart(ToDigits(y), 4)
    ELSE IF y < 0 THEN <<"-">> \o padStart(ToDigits(0 - y), 6)
    ELSE <<"+">> \o padStart(ToDigits(y), 6)

\* date.toISOString().split('T')[0]
ISODate(date) ==
    YearString(date.y) \o <<"-">> \o padStart(ToDigits(date.m), 2)
        \o <<"-">> \o padStart(ToDigits(date.d), 2)

\* normalizeDate
normalizeDate(value) ==
    LET date == parseDate(value)
    IN  IF ~date.valid THEN Thrown("Invalid event date") ELSE Returned(ISODate(date))

NoSpaceNoAt(s) == s # <<>> /\ \A i \in DOMAIN s : s[i] \notin Whitespace \cup {"@"}

\* a pattern without the dot of the domain, /^[^\s@]+@[^\s@]+$/: the fault
\* the check of the email claim is shown to detect
emailRegexNoDot(value) ==
    \E i \in DOMAIN value :
        /\ value[i] = "@"
        /\ NoSpaceNoAt(Slice(value, 1, i - 1))
        /\ NoSpaceNoAt(Slice(value, i + 1, Len(value)))

\* emailRegex.test(value): /^[^\s@]+@[^\s@]+\.[^\s@]+$/
emailRegex(value) ==
    \E i, j \in DOMAIN value :
        /\ i < j
        /\ value[i] = "@"
        /\ value[j] = "."
        /\ NoSpaceNoAt(Slice(value, 1, i - 1))
        /\ NoSpaceNoAt(Slice(value, i + 1, j - 1))
        /\ NoSpaceNoAt(Slice(value, j + 1, Len(value)))

Job(op, who, ok) == [op |-> op, who |-> who, ok |-> ok]

NoResult == [kind |-> "none", h |-> NULL]

InitConn ==
    /\ cachedConn = NULL
    /\ cachedPromise = NULL
    /\ promiseState = [k \in Attempts |-> "none"]
    /\ connState = [k \in Attempts |-> "none"]
    /\ waiters = [k \in Attempts |-> <<>>]
    /\ connects = 0
    /\ disconnects = 0
    /\ pc = [i \in Callers |-> "idle"]
    /\ awaiting = [i \in Callers |-> NULL]
    /\ result = [i \in Callers |-> NoResult]
    /\ jobs = <<>>
    /\ calls = 0
    /\ connectCalls = 0
    /\ disconnectCalls = 0
    /\ anyFailed = FALSE
    /\ resolved = {}

Savers == 1 .. NumSavers
Ids == 1 .. MaxSaves

\* requiredStringFields, in the order of the pre-save hook
StringFields == <<"title", "description", "overview", "image", "venue",
                  "location", "date", "time", "mode", "audience", "organizer">>

\* the String paths of eventSchema, in schema order
SchemaStringPaths == <<"title", "slug", "description", "overview", "image", "venue",
                       "location", "date", "time", "mode", "audience", "organizer">>

Range(f) == {f[i] : i \in DOMAIN f}

AllPaths == Range(SchemaStringPaths) \cup {"agenda", "tags"}

\* EventAttrs: a document of the Event collection
EventDoc(id, title, slug, date, time, other, agenda, tags) ==
    [id |-> id, title |-> title, slug |-> slug, description |-> other,
     overview |-> other, image |-> other, venue |-> other, location |-> other,
     date |-> date, time |-> time, mode |-> other, audience |-> other,
     agenda |-> agenda, organizer |-> other, tags |-> tags]

BlankDoc == EventDoc(NULL, Undefined, Undefined, Undefined, Undefined, Undefined, <<>>, <<>>)

NoSave == [isNew |-> FALSE, req |-> BlankDoc, doc |-> BlankDoc, mod |-> {}]

\* BookingAttrs: a document of the Booking collection
BookingDoc(id, eventId, email) == [id |-> id, eventId |-> eventId, email |-> email]

NoBooking == BookingDoc(NULL, NULL, Undefined)

NoRejection == [set |-> FALSE, email |-> Undefined, validate |-> FALSE]

InitStore ==
    /\ events = {}
    /\ bookings = {}
    /\ saves = 0
    /\ nextId = 0
    /\ evpc = [s \in Savers |-> "idle"]
    /\ evsave = [s \in Savers |-> NoSave]
    /\ bkpc = [s \in Savers |-> "idle"]
    /\ bksave = [s \in Savers |-> NoBooking]
    /\ error = ""
    /\ rejected = NoRejection

Init == InitConn /\ InitStore

(***************************************************************************)
(* The values callers save.                                                *)
(***************************************************************************)
Text == <<"x">>
TitleInputs == {<<"A", "_", "b">>, <<" ", "c", "!">>, <<"!">>, <<" ">>, Undefined}
SlugInputs == {<<"z">>, Undefined}
DateInputs == {<<"+", "0", "1", "0", "0", "0", "0", "-", "0", "1", "-", "0", "1">>,
               <<"2", "0", "2", "4", "-", "1", "3", "-", "0", "1">>,
               <<"s", "o", "o", "n">>}
TimeInputs == {<<" ", "2", "3", ":", "5", "9", ":", "3", "0">>,
               <<"2", "4", ":", "0", "0">>, <<"1", "2", ":", "6", "0">>,
               <<"9", ":", "5">>}
TextInputs == {<<" ", "x", " ">>, <<" ">>, Undefined}
ListInputs == {<<>>}

FieldInputs(f) ==
    CASE f = "title" -> TitleInputs
      [] f = "slug" -> SlugInputs
      [] f = "date" -> DateInputs
      [] f = "time" -> TimeInputs
      [] f \in {"agenda", "tags"} -> ListInputs
      [] OTHER -> TextInputs

\* what a caller passes to `new Event(...)`: complete attributes, of which
\* a save replaces one by a value of FieldInputs
BaseAttrs == EventDoc(NULL, <<"c">>, <<"z">>,
                      <<"2", "0", "2", "4", "-", "0", "2", "-", "3", "0">>,
                      <<"9", ":", "0", "5">>, Text, <<"intro">>, <<"x">>)

EmailInputs == {<<"a", "@", "b", ".", "c">>,
                <<" ", "A", "@", "b", ".", "C", " ">>,
                <<"a", "@", "b", ".", "c", ".", "d">>,
                <<"a", "@", "b">>,
                <<"a", "@", "@", "b", ".", "c">>,
                <<"a", " ", "b", "@", "c", ".", "d">>,
                <<"@", "b", ".", "c">>,
                <<"a", "@", ".", "c">>,
                <<"a", "@", "b", ".">>,
                <<" ">>, Undefined}

(***************************************************************************)
(* The Event schema                                                        *)
(***************************************************************************)
\* the setter of a String path declared with `trim: true`
TrimSetter(v) == IF IsString(v) THEN trim(v) ELSE v

\* document.set(path, value): the path's setters run
SetPath(doc, f, v) ==
    IF f \in Range(SchemaStringPaths) THEN [doc EXCEPT ![f] = TrimSetter(v)]
    ELSE [doc EXCEPT ![f] = v]

\* `required: true` on a String path
RequiredString(v) == IsString(v) /\ v # <<>>

\* the validator of agenda and of tags
NonEmptyArray(value) == Len(value) > 0

\* the first of `fields` among the positions `bad`, "" when there is none
FirstMissing(fields, bad) ==
    IF bad = {} THEN ""
    ELSE fields[CHOOSE i \in bad : \A j \in bad : i <= j]

\* document validation against eventSchema: "" or the message of the first
\* path that fails
eventSchemaValidate(doc) ==
    LET f == FirstMissing(SchemaStringPaths,
                          {i \in DOMAIN SchemaStringPaths :
                               ~RequiredString(doc[SchemaStringPaths[i]])})
    IN  IF f # "" THEN "Path " \o f \o " is required."
        ELSE IF ~NonEmptyArray(doc.agenda) THEN "Agenda must contain at least one item"
        ELSE IF ~NonEmptyArray(doc.tags) THEN "Tags must contain at least one item"
        ELSE ""

\* a presence test without the trimmed-length half: the fault the check of
\* the required-fields claim is shown to detect
FieldPresentTypeOnly(raw) == IsString(raw)

\* the negation of `typeof raw !== 'string' || raw.trim().length === 0`
FieldPresent(raw) == IsString(raw) /\ Len(trim(raw)) # 0

RECURSIVE TrimFields(_, _)
TrimFields(doc, fields) ==
    IF fields = <<>> THEN doc
    ELSE TrimFields([doc EXCEPT ![Head(fields)] = trim(@)], Tail(fields))

\* `if (this.isModified('title'))`: whether the hook regenerates the slug
RegeneratesSlug(mod) == "title" \in mod

HookError(msg) == [error |-> msg, doc |-> BlankDoc, mod |-> {}]

\* the paths of `after` that differ from `before` become modified
Dirty(before, after, mod) == mod \cup {f \in AllPaths : after[f] # before[f]}

\* eventSchema.pre('save'): the error handed to next(), or the document and
\* its modified paths as the hook leaves them
eventPreSave(this, mod) ==
    LET missing == FirstMissing(StringFields,
                                {i \in DOMAIN StringFields :
                                     ~FieldPresent(this[StringFields[i]])})
    IN
    IF missing # ""
    THEN HookError("Field \"" \o missing \o "\" is required and cannot be empty")
    ELSE IF Len(this.agenda) = 0
    THEN HookError("Field \"agenda\" is required and cannot be empty")
    ELSE IF Len(this.tags) = 0
    THEN HookError("Field \"tags\" is required and cannot be empty")
    ELSE
    LET d1 == TrimFields(this, StringFields)
        generatedSlug == slugify(d1.title)
    IN
    IF RegeneratesSlug(mod) /\ generatedSlug = <<>>
    THEN HookError("Generated slug is empty; check event title")
    ELSE
    LET d2 == IF RegeneratesSlug(mod) THEN [d1 EXCEPT !.slug = generatedSlug] ELSE d1
        date == IF "date" \in mod THEN normalizeDate(d2.date) ELSE Returned(d2.date)
    IN
    IF ~date.ok THEN HookError(date.error)
    ELSE
    LET d3 == [d2 EXCEPT !.date = date.value]
        time == IF "time" \in mod THEN normalizeTime(d3.time) ELSE Returned(d3.time)
    IN
    IF ~time.ok THEN HookError(time.error)
    ELSE [error |-> "", doc |-> [d3 EXCEPT !.time = time.value],
          mod |-> Dirty(this, [d3 EXCEPT !.time = time.value], mod)]

\* document.save() up to the write: validation (unless the caller passed
\* validateBeforeSave: false), then the pre-save hook
eventSaveOutcome(this, mod, validate) ==
    LET invalid == IF validate THEN eventSchemaValidate(this) ELSE ""
    IN  IF invalid # "" THEN HookError(invalid) ELSE eventPreSave(this, mod)

\* a collection without the unique index: the fault the check of the
\* unique-slug claim is shown to detect
SlugNotIndexed(doc) == TRUE

\* the unique index on slug: no other document holds the slug
SlugUnique(doc) == \A e \in events : e.id # doc.id => e.slug # doc.slug

\* A save starts in the first free slot; nothing else runs while the caller
\* of a rejected save is being handed its error.
MayStart(pcs, s) ==
    /\ error = ""
    /\ pcs[s] = "idle"
    /\ \A t \in Savers : t < s => pcs[t] # "idle"

\* the caller of a rejected save has seen the error
ErrorSeen ==
    /\ error # ""
    /\ error' = ""
    /\ rejected' = NoRejection
    /\ UNCHANGED <<events, bookings, saves, nextId, evpc, evsave, bkpc, bksave>>
    /\ UNCHANGED connVars

EventSaveStarts(s, isNew, this, out) ==
    /\ MayStart(evpc, s)
    /\ IF out.error # ""
       THEN /\ error' = out.error
            /\ UNCHANGED <<evpc, evsave, nextId, saves>>
       ELSE /\ saves < MaxSaves
            /\ saves' = saves + 1
            /\ evpc' = [evpc EXCEPT ![s] = "writing"]
            /\ nextId' = IF isNew THEN nextId + 1 ELSE nextId
            /\ evsave' = [evsave EXCEPT ![s] =
                            [isNew |-> isNew, req |-> this,
                             doc |-> IF isNew THEN [out.doc EXCEPT !.id = nextId + 1]
                                     ELSE out.doc,
                             mod |-> out.mod]]
            /\ UNCHANGED error
    /\ UNCHANGED <<events, bookings, bkpc, bksave, rejected>>
    /\ UNCHANGED connVars

\* new Event(attrs): the document as the setters leave it, every given path
\* modified, and what save() makes of it
NewEvent(f, v, validate) ==
    LET attrs == [BaseAttrs EXCEPT ![f] = v]
        set == {p \in AllPaths : attrs[p] # Undefined}
        this == [p \in DOMAIN attrs |->
                   IF p \in set THEN SetPath(attrs, p, attrs[p])[p] ELSE attrs[p]]
    IN  [this |-> this, out |-> eventSaveOutcome(this, set, validate)]

\* the requests that replace one of `fields`: <<field, value, validateBeforeSave>>
EventRequests(fields) ==
    {r \in fields \X (UNION {FieldInputs(g) : g \in AllPaths}) \X BOOLEAN :
        r[2] \in FieldInputs(r[1])}

AllNewEvents == {NewEvent(r[1], r[2], r[3]) : r \in EventRequests(AllPaths)}

\* new Event(attrs).save()
EventCreate(s, n) == EventSaveStarts(s, TRUE, n.this, n.out)

\* event.<f> = v; event.save() on a document read from the collection
EventUpdate(s, e, f, v, validate) ==
    LET this == SetPath(e, f, v)
        mod == IF this[f] # e[f] THEN {f} ELSE {}
    IN  EventSaveStarts(s, FALSE, this, eventSaveOutcome(this, mod, validate))

\* the stored document after `$set` of the modified paths
Merged(stored, doc, mod) ==
    [p \in DOMAIN stored |-> IF p \in mod THEN doc[p] ELSE stored[p]]

\* the write of a save reaches the collection: insertOne for a new
\* document, updateOne of the modified paths otherwise
EventWrite(s) ==
    LET w == evsave[s]
        stored == {e \in events : e.id = w.doc.id}
    IN  /\ error = ""
        /\ evpc[s] = "writing"
        /\ evpc' = [evpc EXCEPT ![s] = "idle"]
        /\ evsave' = [evsave EXCEPT ![s] = NoSave]
        /\ IF w.isNew
           THEN IF SlugUnique(w.doc)
                THEN /\ events' = events \cup {w.doc}
                     /\ UNCHANGED error
                ELSE /\ error' = "E11000 duplicate key error"
                     /\ UNCHANGED events
           ELSE IF stored = {}
                THEN /\ error' = "DocumentNotFoundError"
                     /\ UNCHANGED events
                ELSE LET old == CHOOSE e \in stored : TRUE
                         new == Merged(old, w.doc, w.mod)
                     IN  IF SlugUnique(new)
                         THEN /\ events' = (events \ {old}) \cup {new}
                              /\ UNCHANGED error
                         ELSE /\ error' = "E11000 duplicate key error"
                              /\ UNCHANGED events
        /\ UNCHANGED <<bookings, saves, nextId, bkpc, bksave, rejected>>
        /\ UNCHANGED connVars

\* Event.deleteOne({ _id })
EventDelete(e) ==
    /\ error = ""
    /\ events' = events \ {e}
    /\ UNCHANGED <<bookings, saves, nextId, evpc, evsave, bkpc, bksave, error, rejected>>
    /\ UNCHANGED connVars

\* the fields an update of a stored Event changes
UpdateFields == {"title", "slug", "date", "time", "description"}

NextEvent ==
    \/ \E s \in Savers, n \in AllNewEvents : EventCreate(s, n)
    \/ \E s \in Savers, e \in events, f \in UpdateFields, validate \in BOOLEAN :
           \E v \in FieldInputs(f) : EventUpdate(s, e, f, v, validate)
    \/ \E s \in Savers : EventWrite(s)
    \/ \E e \in events : EventDelete(e)
    \/ ErrorSeen

SpecEvent == Init /\ [][NextEvent]_vars

(***************************************************************************)
(* The Booking schema                                                      *)
(***************************************************************************)
\* the setters of email: `trim: true`, `lowercase: true`
EmailSetter(v) == IF IsString(v) THEN toLowerCase(trim(v)) ELSE v

\* document validation against bookingSchema: "" or the message of the
\* first validator of email that fails
bookingSchemaValidate(email) ==
    IF ~RequiredString(email) THEN "Path email is required."
    ELSE IF ~emailRegex(email) THEN "Invalid email address"
    ELSE ""

\* bookingSchema.pre('save'), up to `await Event.exists(...)`; test() turns
\* a missing email into the string "undefined", which has no "@"
bookingPreSave(email) ==
    IF ~emailRegex(email) THEN "Invalid email address" ELSE ""

\* `Event.exists({ _id: this.eventId })`
eventExists(eventId) == \E e \in events : e.id = eventId

\* new Booking({ eventId, email }).save(), up to the query of the hook
BookingCreate(s, eventId, v, validate) ==
    LET email == EmailSetter(v)
        invalid == IF validate THEN bookingSchemaValidate(email) ELSE ""
        failure == IF invalid # "" THEN invalid ELSE bookingPreSave(email)
    IN  /\ MayStart(bkpc, s)
        /\ IF failure # ""
           THEN /\ error' = failure
                /\ rejected' = [set |-> TRUE, email |-> email, validate |-> validate]
                /\ UNCHANGED <<bkpc, bksave, nextId, saves>>
           ELSE /\ saves < MaxSaves
                /\ saves' = saves + 1
                /\ nextId' = nextId + 1
                /\ bkpc' = [bkpc EXCEPT ![s] = "querying"]
                /\ bksave' = [bksave EXCEPT ![s] = BookingDoc(nextId + 1, eventId, email)]
                /\ UNCHANGED <<error, rejected>>
        /\ UNCHANGED <<events, bookings, evpc, evsave>>
        /\ UNCHANGED connVars

\* bookingSchema.pre('save'), from the answer of Event.exists to next()
BookingEventChecked(s) ==
    /\ error = ""
    /\ bkpc[s] = "querying"
    /\ IF eventExists(bksave[s].eventId)
       THEN /\ bkpc' = [bkpc EXCEPT ![s] = "writing"]
            /\ UNCHANGED <<bksave, error>>
       ELSE /\ bkpc' = [bkpc EXCEPT ![s] = "idle"]
            /\ bksave' = [bksave EXCEPT ![s] = NoBooking]
            /\ error' = "Referenced event does not exist"
    /\ UNCHANGED <<events, bookings, saves, nextId, evpc, evsave, rejected>>
    /\ UNCHANGED connVars

\* the insert of the Booking reaches the collection
BookingWrite(s) ==
    /\ error = ""
    /\ bkpc[s] = "writing"
    /\ bookings' = bookings \cup {bksave[s]}
    /\ bkpc' = [bkpc EXCEPT ![s] = "idle"]
    /\ bksave' = [bksave EXCEPT ![s] = NoBooking]
    /\ UNCHANGED <<events, saves, nextId, evpc, evsave, error, rejected>>
    /\ UNCHANGED connVars

\* the Events the callers of the Booking scenario create
BookedEvents == {NewEvent(r[1], r[2], r[3]) : r \in EventRequests({"title"}) \cap
                    ({"title"} \X {<<"A", "_", "b">>, <<" ", "c", "!">>} \X {TRUE})}

NextBooking ==
    \/ \E s \in Savers, n \in BookedEvents : EventCreate(s, n)
    \/ \E s \in Savers : EventWrite(s)
    \/ \E e \in events : EventDelete(e)
    \/ \E s \in Savers, eventId \in Ids, validate \in BOOLEAN :
           \E v \in EmailInputs : BookingCreate(s, eventId, v, validate)
    \/ \E s \in Savers : BookingEventChecked(s)
    \/ \E s \in Savers : BookingWrite(s)
    \/ ErrorSeen

SpecBooking == Init /\ [][NextBooking]_vars

(***************************************************************************)
(* The cached connection                                                   *)
(***************************************************************************)
\* `return cached.conn` of an async function: the call resolves to the handle
ReturnConn(i, h) ==
    /\ result' = [result EXCEPT ![i] = [kind |-> "conn", h |-> h]]
    /\ resolved' = resolved \cup {h}
    /\ pc' = [pc EXCEPT ![i] = "idle"]

\* A caller invokes connectToDatabase() or disconnectFromDatabase(): the
\* body of the call is the next thing the caller's job runs.
Invoke(i, op) ==
    /\ UNCHANGED storeVars
    /\ pc[i] = "idle"
    /\ calls < MaxCalls
    /\ calls' = calls + 1
    /\ pc' = [pc EXCEPT ![i] = "invoked"]
    /\ jobs' = Append(jobs, Job(op, i, TRUE))
    /\ UNCHANGED <<cachedConn, cachedPromise, promiseState, connState, waiters,
                   connects, disconnects, awaiting, result, connectCalls,
                   disconnectCalls, anyFailed, resolved>>

\* a call that ignores the cached promise: the fault the check of the reuse
\* claim is shown to detect
AlwaysNewPromise == TRUE

\* `if (!cached.promise)`: whether the call starts a new mongoose.connect
NeedsNewPromise == cachedPromise = NULL

\* connectToDatabase, from its entry to `await cached.promise`
connectToDatabase(i) ==
    /\ UNCHANGED storeVars
    /\ jobs # <<>>
    /\ Head(jobs) = Job("connect", i, TRUE)
    /\ connectCalls' = connectCalls + 1
    /\ IF cachedConn # NULL
       THEN /\ ReturnConn(i, cachedConn)
            /\ jobs' = Tail(jobs)
            /\ UNCHANGED <<cachedConn, cachedPromise, promiseState, connState,
                           waiters, connects, awaiting>>
       ELSE LET create == NeedsNewPromise
                k == IF create THEN connects + 1 ELSE cachedPromise
                pending == create \/ promiseState[k] = "pending"
            IN  /\ cachedPromise' = k
                /\ connects' = IF create THEN connects + 1 ELSE connects
                /\ promiseState' = IF create
                                   THEN [promiseState EXCEPT ![k] = "pending"]
                                   ELSE promiseState
                /\ connState' = IF create
                                THEN [connState EXCEPT ![k] = "connecting"]
                                ELSE connState
                /\ awaiting' = [awaiting EXCEPT ![i] = k]
                /\ pc' = [pc EXCEPT ![i] = "awaitPromise"]
                /\ waiters' = IF pending
                              THEN [waiters EXCEPT ![k] = Append(@, i)]
                              ELSE waiters
                /\ jobs' = IF pending
                           THEN Tail(jobs)
                           ELSE Append(Tail(jobs), Job("resume", i, TRUE))
                /\ UNCHANGED <<cachedConn, result, resolved>>
    /\ UNCHANGED <<disconnects, calls, disconnectCalls, anyFailed>>

\* mongoose.connect finishes, with a connection or with an error: the
\* .then / .catch callbacks of lines 66-72 are queued
ConnectFinishes(k, ok) ==
    /\ UNCHANGED storeVars
    /\ jobs = <<>>
    /\ connState[k] = "connecting"
    /\ connState' = [connState EXCEPT ![k] = IF ok THEN "connected" ELSE "failed"]
    /\ anyFailed' = (anyFailed \/ ~ok)
    /\ jobs' = Append(jobs, Job("settle", k, ok))
    /\ UNCHANGED <<cachedConn, cachedPromise, promiseState, waiters, connects,
                   disconnects, pc, awaiting, result, calls, connectCalls,
                   disconnectCalls, resolved>>

RECURSIVE ResumeJobs(_)
ResumeJobs(ws) ==
    IF ws = <<>> THEN <<>>
    ELSE <<Job("resume", Head(ws), TRUE)>> \o ResumeJobs(Tail(ws))

\* the promise stored in cached.promise settles: `return mongoose.connection`
\* or `throw error`; the registered awaiters are queued in order
SettlePromise(k) ==
    /\ UNCHANGED storeVars
    /\ jobs # <<>>
    /\ Head(jobs).op = "settle"
    /\ Head(jobs).who = k
    /\ promiseState' = [promiseState EXCEPT
                          ![k] = IF Head(jobs).ok THEN "fulfilled" ELSE "rejected"]
    /\ jobs' = Tail(jobs) \o ResumeJobs(waiters[k])
    /\ waiters' = [waiters EXCEPT ![k] = <<>>]
    /\ UNCHANGED <<cachedConn, cachedPromise, connState, connects, disconnects,
                   pc, awaiting, result, calls, connectCalls, disconnectCalls,
                   anyFailed, resolved>>

\* what the catch block of connectToDatabase stores in cached.promise
ResetPromise == NULL

\* connectToDatabase, after `await cached.promise`: the try / catch
connectResume(i) ==
    /\ UNCHANGED storeVars
    /\ jobs # <<>>
    /\ Head(jobs) = Job("resume", i, TRUE)
    /\ jobs' = Tail(jobs)
    /\ awaiting' = [awaiting EXCEPT ![i] = NULL]
    /\ IF promiseState[awaiting[i]] = "fulfilled"
       THEN /\ cachedConn' = awaiting[i]
            /\ ReturnConn(i, awaiting[i])
            /\ UNCHANGED cachedPromise
       ELSE /\ cachedPromise' = ResetPromise
            /\ result' = [result EXCEPT ![i] = [kind |-> "error", h |-> awaiting[i]]]
            /\ pc' = [pc EXCEPT ![i] = "idle"]
            /\ UNCHANGED <<cachedConn, resolved>>
    /\ UNCHANGED <<promiseState, connState, waiters, connects, disconnects,
                   calls, connectCalls, disconnectCalls, anyFailed>>

\* whether disconnectFromDatabase goes on to mongoose.disconnect()
ShouldDisconnect == cachedConn # NULL

\* disconnectFromDatabase, from its entry to `await mongoose.disconnect()`
disconnectFromDatabase(i) ==
    /\ UNCHANGED storeVars
    /\ jobs # <<>>
    /\ Head(jobs) = Job("disconnect", i, TRUE)
    /\ jobs' = Tail(jobs)
    /\ disconnectCalls' = disconnectCalls + 1
    /\ IF ShouldDisconnect
       THEN /\ disconnects' = disconnects + 1
            /\ connState' = [k \in Attempts |->
                               IF connState[k] = "connected" THEN "closed"
                               ELSE connState[k]]
            /\ pc' = [pc EXCEPT ![i] = "awaitDisconnect"]
            /\ UNCHANGED result
       ELSE /\ result' = [result EXCEPT ![i] = [kind |-> "void", h |-> NULL]]
            /\ pc' = [pc EXCEPT ![i] = "idle"]
            /\ UNCHANGED <<disconnects, connState>>
    /\ UNCHANGED <<cachedConn, cachedPromise, promiseState, waiters, connects,
                   awaiting, calls, connectCalls, anyFailed, resolved>>

\* mongoose.disconnect() finishes: the rest of disconnectFromDatabase is queued
DisconnectFinishes(i) ==
    /\ UNCHANGED storeVars
    /\ jobs = <<>>
    /\ pc[i] = "awaitDisconnect"
    /\ pc' = [pc EXCEPT ![i] = "disconnected"]
    /\ jobs' = Append(jobs, Job("resumeDisconnect", i, TRUE))
    /\ UNCHANGED <<cachedConn, cachedPromise, promiseState, connState, waiters,
                   connects, disconnects, awaiting, result, calls, connectCalls,
                   disconnectCalls, anyFailed, resolved>>

\* a disconnect that keeps the cached promise: the fault the check of the
\* disconnect claim is shown to detect
PromiseKept == cachedPromise

\* `cached.promise = null` at the end of disconnectFromDatabase
PromiseAfterDisconnect == NULL

\* disconnectFromDatabase, after `await mongoose.disconnect()`
disconnectResume(i) ==
    /\ UNCHANGED storeVars
    /\ jobs # <<>>
    /\ Head(jobs) = Job("resumeDisconnect", i, TRUE)
    /\ jobs' = Tail(jobs)
    /\ cachedConn' = NULL
    /\ cachedPromise' = PromiseAfterDisconnect
    /\ result' = [result EXCEPT ![i] = [kind |-> "void", h |-> NULL]]
    /\ pc' = [pc EXCEPT ![i] = "idle"]
    /\ UNCHANGED <<promiseState, connState, waiters, connects, disconnects,
                   awaiting, calls, connectCalls, disconnectCalls, anyFailed,
                   resolved>>

NextConn ==
    \/ \E i \in Callers : Invoke(i, "connect")
    \/ \E i \in Callers : Invoke(i, "disconnect")
    \/ \E i \in Callers : connectToDatabase(i)
    \/ \E k \in Attempts, ok \in BOOLEAN : ConnectFinishes(k, ok)
    \/ \E k \in Attempts : SettlePromise(k)
    \/ \E i \in Callers : connectResume(i)
    \/ \E i \in Callers : disconnectFromDatabase(i)
    \/ \E i \in Callers : DisconnectFinishes(i)
    \/ \E i \in Callers : disconnectResume(i)

SpecConn == Init /\ [][NextConn]_vars

(***************************************************************************)
(* Claims about the Booking schema                                         *)
(***************************************************************************)

\* C1: whenever a Booking is added to the collection, the Event its eventId
\* names exists at that moment, also when Events are deleted between the
\* existence check of the hook and the write.
C1_BookingReferencesEvent ==
    [][\A b \in bookings' \ bookings : \E e \in events' : e.id = b.eventId]_vars

NoWhitespace(s) == \A i \in DOMAIN s : s[i] \notin Whitespace
NoUpperCase(s) == \A i \in DOMAIN s : \A j \in DOMAIN UpperSeq : s[i] # UpperSeq[j]

\* local@domain.tld: no whitespace, exactly one "@" with something before
\* it, and a "." after it with something on both of its sides
WellFormedEmail(s) ==
    /\ IsString(s)
    /\ NoWhitespace(s)
    /\ Cardinality({i \in DOMAIN s : s[i] = "@"}) = 1
    /\ LET at == CHOOSE i \in DOMAIN s : s[i] = "@"
       IN  /\ at > 1
           /\ \E j \in DOMAIN s : s[j] = "." /\ j > at + 1 /\ j < Len(s)

StoredEmailsValid ==
    /\ \A b \in bookings : WellFormedEmail(b.email) /\ NoUpperCase(b.email)
    /\ \A s \in Savers : bkpc[s] # "idle" =>
           WellFormedEmail(bksave[s].email) /\ NoUpperCase(bksave[s].email)

\* C5 as stated: every stored Booking's email is trimmed, lower-cased and
\* well formed, an email that is not well formed never reaches the existence
\* check, and its save is rejected with 'Invalid email address'.
C5_RejectedWithInvalidEmail ==
    /\ StoredEmailsValid
    /\ rejected.set => error = "Invalid email address"

\* C5 amended: as above, but the message is 'Invalid email address' for an
\* email that is not empty; an empty or missing email is rejected by the
\* required validator when validation runs, by the hook otherwise.
C5_EmailValidated ==
    /\ StoredEmailsValid
    /\ rejected.set =>
         /\ ~WellFormedEmail(rejected.email)
         /\ IF rejected.validate /\ rejected.email \in {<<>>, Undefined}
            THEN error = "Path email is required."
            ELSE error = "Invalid email address"

C5_Witness ==
    /\ bookings # {}
    /\ rejected.set
    /\ rejected.email = <<"a", "@", "b">>
    /\ error = "Invalid email address"

(***************************************************************************)
(* Claims about the Event schema                                           *)
(***************************************************************************)

\* C2: every stored Event's slug is slugify of its stored title.
C2_SlugDerivedFromTitle == \A e \in events : e.slug = slugify(e.title)

UniqueSlugs == \A e1, e2 \in events : e1.id # e2.id => e1.slug # e2.slug

\* the slug the write of saver s would leave in its document
WrittenSlug(s) ==
    IF evsave[s].isNew \/ "slug" \in evsave[s].mod THEN evsave[s].doc.slug
    ELSE Undefined

SlugTaken(s) ==
    \E e \in events : e.id # evsave[s].doc.id /\ e.slug = WrittenSlug(s)

\* C3: no two stored Events share a slug, and a write whose slug another
\* stored Event holds is rejected and leaves the collection unchanged.
C3_UniqueSlug ==
    [][/\ UniqueSlugs'
       /\ \A s \in Savers :
            (evpc[s] = "writing" /\ evpc'[s] = "idle" /\ SlugTaken(s))
               => (events' = events /\ error' # "")]_vars

C3_Witness ==
    /\ error = "E11000 duplicate key error"
    /\ \E e \in events : e.slug = <<"c">>
    /\ \E s \in Savers : evpc[s] = "idle"

IsYMD(s) ==
    /\ Len(s) = 10
    /\ \A i \in {1, 2, 3, 4, 6, 7, 9, 10} : s[i] \in Digit
    /\ s[5] = "-" /\ s[8] = "-"

IsHHmm(s) ==
    /\ Len(s) = 5
    /\ \A i \in {1, 2, 4, 5} : s[i] \in Digit
    /\ s[3] = ":"
    /\ 10 * DigitVal(s[1]) + DigitVal(s[2]) <= 23
    /\ 10 * DigitVal(s[4]) + DigitVal(s[5]) <= 59

\* C4: every stored Event's date has the form YYYY-MM-DD and its time the
\* form HH:mm, hours 00-23 and minutes 00-59.
C4_DateTimeNormalized == \A e \in events : IsYMD(e.date) /\ IsHHmm(e.time)

\* a string that is not empty and neither starts nor ends with whitespace
TrimmedNonEmpty(v) ==
    /\ IsString(v)
    /\ v # <<>>
    /\ Head(v) \notin Whitespace
    /\ v[Len(v)] \notin Whitespace

\* a string with a character that is not whitespace
NonBlank(v) == IsString(v) /\ \E i \in DOMAIN v : v[i] \notin Whitespace

\* a title with a letter or a digit: the titles whose slug is not empty
HasSlugCharacter(v) ==
    \E i \in DOMAIN v : LowerChar(v[i]) \in LowerLetter \cup Digit

StoredEventValid(e) ==
    /\ \A i \in DOMAIN StringFields : TrimmedNonEmpty(e[StringFields[i]])
    /\ e.agenda # <<>>
    /\ e.tags # <<>>

RequestValid(req) ==
    /\ \A i \in DOMAIN StringFields : NonBlank(req[StringFields[i]])
    /\ req.agenda # <<>>
    /\ req.tags # <<>>
    /\ HasSlugCharacter(req.title)

\* C7: a save goes on to its write only when every one of the eleven string
\* fields is a non-blank string, agenda and tags are not empty and the title
\* has a slug; a rejected save leaves the collection unchanged; so every
\* stored Event has the eleven fields non-empty and trimmed and a non-empty
\* agenda and tags.
C7_RequiredFields ==
    [][/\ \A e \in events' : StoredEventValid(e)
       /\ \A s \in Savers : evpc'[s] = "writing" => RequestValid(evsave'[s].req)
       /\ (error = "" /\ error' # "") => events' = events]_vars

C7_Witness ==
    /\ events # {}
    /\ error = "Field \"venue\" is required and cannot be empty"

(***************************************************************************)
(* Claims about the cached connection                                      *)
(***************************************************************************)

\* C6: no mongoose.connect before the first connectToDatabase call; while no
\* attempt has failed and disconnectFromDatabase was not called,
\* mongoose.connect has been invoked at most once and every call has
\* resolved to the same handle.
C6_LazyAndReused ==
    /\ connectCalls = 0 => connects = 0
    /\ (~anyFailed /\ disconnectCalls = 0) =>
           (connects <= 1 /\ Cardinality(resolved) <= 1)

C6_Witness ==
    /\ ~anyFailed
    /\ disconnectCalls = 0
    /\ connects = 1
    /\ connectCalls = MaxCalls
    /\ \A i \in Callers : pc[i] = "idle" /\ result[i].kind = "conn"

\* the call of caller i is rejected in this step
Rejects(i) == pc[i] = "awaitPromise" /\ pc'[i] = "idle" /\ result'[i].kind = "error"

\* C8: a call awaiting an attempt that failed is rejected, cached.conn stays
\* null, the promise of the failed attempt is reset to null, and the promise
\* of a newer attempt, pending or fulfilled, is left in place.
C8_FailedAttemptNotCached ==
    [][\A i \in Callers :
         /\ (pc[i] = "awaitPromise" /\ pc'[i] = "idle"
               /\ promiseState[awaiting[i]] = "rejected") => Rejects(i)
         /\ Rejects(i) =>
              /\ cachedConn' = NULL
              /\ cachedPromise = awaiting[i] => cachedPromise' = NULL
              /\ (cachedPromise \notin {NULL, awaiting[i]}
                    /\ promiseState[cachedPromise] \in {"pending", "fulfilled"})
                   => cachedPromise' = cachedPromise]_vars

\* the body of caller i's call to `op` starts in this step
Starts(i, op) ==
    /\ pc[i] = "invoked"
    /\ pc'[i] # "invoked"
    /\ Head(jobs) = Job(op, i, TRUE)

DisconnectInProgress == \E i \in Callers : pc[i] \in {"awaitDisconnect", "disconnected"}

\* C9: disconnectFromDatabase with a cached connection calls
\* mongoose.disconnect and ends with cached.conn and cached.promise null; a
\* connectToDatabase call that finds them null invokes mongoose.connect, and
\* once no disconnect is in progress the cache holds no disconnected handle;
\* with cached.conn null it calls nothing and leaves the cache as it is.
C9_Disconnect ==
    [][/\ \A i \in Callers :
            /\ (Starts(i, "disconnect") /\ cachedConn # NULL) =>
                   (disconnects' = disconnects + 1 /\ pc'[i] = "awaitDisconnect")
            /\ (Starts(i, "disconnect") /\ cachedConn = NULL) =>
                   /\ disconnects' = disconnects
                   /\ pc'[i] = "idle"
                   /\ cachedConn' = cachedConn
                   /\ cachedPromise' = cachedPromise
            /\ (pc[i] = "disconnected" /\ pc'[i] = "idle") =>
                   (cachedConn' = NULL /\ cachedPromise' = NULL)
            /\ (Starts(i, "connect") /\ cachedConn = NULL /\ cachedPromise = NULL) =>
                   (connects' = connects + 1 /\ pc'[i] = "awaitPromise")
       /\ (cachedConn' # NULL /\ ~DisconnectInProgress') =>
              connState'[cachedConn'] = "connected"]_vars

C9_Witness ==
    /\ ~anyFailed
    /\ disconnects = 1
    /\ connects = 2
    /\ cachedConn = 2
    /\ connState[1] = "closed"
    /\ \E i \in Callers : result[i].kind = "void"

\* C10: connectToDatabase never resolves to a handle on which disconnect has
\* begun, and whenever cached.conn is not null it is the live connection of
\* the attempt stored in cached.promise.
C10_NeverDisconnectedHandle ==
    [][/\ \A i \in Callers :
            (pc[i] # "idle" /\ pc'[i] = "idle" /\ result'[i].kind = "conn")
               => connState'[result'[i].h] = "connected"
       /\ cachedConn' # NULL =>
              (cachedPromise' = cachedConn' /\ connState'[cachedConn'] = "connected")]_vars

====
